---- MODULE Spec2Model ----
(***************************************************************************)
(* RoleService of packages/core/src/service/services/role.service.ts:      *)
(* the role store, the two system roles and their bootstrap, role create / *)
(* update / channel assignment, and the permission query.                  *)
(***************************************************************************)
EXTENDS Integers, Sequences, FiniteSets, TLC

VARIABLES roles, result, initDone, pc, loaded, log, inFlight

vars == <<roles, result, initDone, pc, loaded, log, inFlight>>

----------------------------------------------------------------------------
(* Bounds of the model *)

\* longest permission list a caller passes to create / update
MaxPermLen == 2
\* most rows the role table holds
MaxRoles == 3
\* most storage calls that fail transiently in one run
MaxFaults == 2

----------------------------------------------------------------------------
(* Values *)

\* an optional input field that was not supplied (undefined)
Undefined == "undefined"
\* an optional list that was not supplied / that was supplied
None == << >>
Some(x) == <<x>>

SUPER_ADMIN_ROLE_CODE == "__super_admin_role__"
CUSTOMER_ROLE_CODE == "__customer_role__"
SUPER_ADMIN_ROLE_DESCRIPTION == "SuperAdmin"
CUSTOMER_ROLE_DESCRIPTION == "Customer"

\* Object.values(Permission), in the enum's order
PermissionValues == <<"Authenticated", "Owner", "CreateAdministrator", "ReadCatalog">>

\* identifiers a caller may pass as a permission: catalog members and two
\* strings outside the catalog
InputPermissions == {"Authenticated", "CreateAdministrator", "NotARealPermission", "Bogus"}

\* the Channel table; DefaultChannel is channelService.getDefaultChannel()
DefaultChannel == "default"
Channels == {DefaultChannel, "c2"}
\* channel ids a caller may pass: the stored ones and one that matches no row
ChannelIds == Channels \cup {"c9"}

\* the User table with each user's roles relation (role ids; the relation row
\* of a role id that is not stored joins to nothing)
UserRoles == [admin |-> {1}, staff |-> {2, 3}]
Users == DOMAIN UserRoles
\* user ids a caller may pass: the stored ones and one that matches no row
UserIds == Users \cup {"ghost"}

CustomCodes == {"editor", "viewer"}
Codes == {SUPER_ADMIN_ROLE_CODE, CUSTOMER_ROLE_CODE} \cup CustomCodes
Descriptions == {"d1", "d2"}

Range(s) == {s[i] : i \in DOMAIN s}

SeqsUpTo(S, n) == UNION {[1..k -> S] : k \in 0..n}

PermLists == SeqsUpTo(InputPermissions, MaxPermLen)

----------------------------------------------------------------------------
(* Helpers imported by the service *)

\* unique(): duplicates removed, first occurrences kept in order
RECURSIVE unique(_)
unique(s) ==
    IF s = << >> THEN << >>
    ELSE LET init == unique(SubSeq(s, 1, Len(s) - 1))
             last == s[Len(s)]
         IN IF last \in Range(init) THEN init ELSE Append(init, last)

\* getUserChannelsPermissions(user): per channel of any of the user's roles,
\* the union of the permissions of the user's roles on that channel
getUserChannelsPermissions(userRoles) ==
    { [id |-> c,
       permissions |-> UNION {Range(r.permissions) : r \in {x \in userRoles : c \in x.channels}}]
      : c \in UNION {r.channels : r \in userRoles} }

\* patchEntity(entity, input): every supplied (not undefined) field overwrites
patchEntity(role, patch) ==
    [code |-> IF patch.code # Undefined THEN patch.code ELSE role.code,
     description |-> IF patch.description # Undefined THEN patch.description ELSE role.description,
     permissions |-> IF patch.permissions # None THEN patch.permissions[1] ELSE role.permissions,
     channels |-> role.channels]

\* connection.manager.save(role): insert (id = 0) or update of one row; the
\* table's unique constraint on code rejects a second row with a stored code
save(rs, id, role) ==
    IF \E j \in DOMAIN rs : j # id /\ rs[j].code = role.code
    THEN [err |-> "QueryFailedError", roles |-> rs, id |-> 0]
    ELSE IF id = 0
         THEN [err |-> "none", roles |-> Append(rs, role), id |-> Len(rs) + 1]
         ELSE [err |-> "none", roles |-> [rs EXCEPT ![id] = role], id |-> id]

----------------------------------------------------------------------------
(* RoleService *)

getAllPermissions == PermissionValues

findOne(rs, roleId) == IF roleId \in DOMAIN rs THEN roleId ELSE 0

\* id of the row with this code, 0 when there is none
getRoleByCode(rs, code) ==
    IF \E i \in DOMAIN rs : rs[i].code = code
    THEN CHOOSE i \in DOMAIN rs : rs[i].code = code /\ \A j \in DOMAIN rs : rs[j].code = code => i <= j
    ELSE 0

\* getSuperAdminRole looking up the Customer code
getSuperAdminRoleByWrongCode(rs) ==
    LET role == getRoleByCode(rs, CUSTOMER_ROLE_CODE)
    IN IF role = 0 THEN [err |-> "InternalServerError", id |-> 0]
       ELSE [err |-> "none", id |-> role]

getSuperAdminRole(rs) ==
    LET role == getRoleByCode(rs, SUPER_ADMIN_ROLE_CODE)
    IN IF role = 0 THEN [err |-> "InternalServerError", id |-> 0]
       ELSE [err |-> "none", id |-> role]

\* getCustomerRole looking up the SuperAdmin code
getCustomerRoleByWrongCode(rs) ==
    LET role == getRoleByCode(rs, SUPER_ADMIN_ROLE_CODE)
    IN IF role = 0 THEN [err |-> "InternalServerError", id |-> 0]
       ELSE [err |-> "none", id |-> role]

getCustomerRole(rs) ==
    LET role == getRoleByCode(rs, CUSTOMER_ROLE_CODE)
    IN IF role = 0 THEN [err |-> "InternalServerError", id |-> 0]
       ELSE [err |-> "none", id |-> role]

\* the user's roles with their channels, as getEntityOrThrow loads them
loadedRoles(rs, userId) == {rs[i] : i \in UserRoles[userId] \cap DOMAIN rs}

\* userHasPermissionOnChannel with the channel lookup lost: any channel counts
userHasPermissionOnAnyChannel(rs, userId, channelId, permission) ==
    IF userId \notin Users
    THEN [err |-> "EntityNotFoundError", val |-> FALSE]
    ELSE LET userChannels == getUserChannelsPermissions(loadedRoles(rs, userId))
         IN [err |-> "none", val |-> \E c \in userChannels : permission \in c.permissions]

userHasPermissionOnChannel(rs, userId, channelId, permission) ==
    IF userId \notin Users
    THEN [err |-> "EntityNotFoundError", val |-> FALSE]
    ELSE LET userChannels == getUserChannelsPermissions(loadedRoles(rs, userId))
             found == {c \in userChannels : c.id = channelId}
         IN IF found = {}
            THEN [err |-> "none", val |-> FALSE]
            ELSE [err |-> "none", val |-> \E c \in found : permission \in c.permissions]

\* checkPermissionsAreValid naming the last invalid permission, not the first
checkPermissionsNamingLast(permissions) ==
    IF permissions = None THEN ""
    ELSE LET list == permissions[1]
             bad == {i \in DOMAIN list : list[i] \notin Range(getAllPermissions)}
         IN IF bad = {} THEN ""
            ELSE list[CHOOSE i \in bad : \A j \in bad : i >= j]

\* "" when every permission is valid, else the permission the error names
checkPermissionsAreValid(permissions) ==
    IF permissions = None THEN ""
    ELSE LET list == permissions[1]
             bad == {i \in DOMAIN list : list[i] \notin Range(getAllPermissions)}
         IN IF bad = {} THEN ""
            ELSE list[CHOOSE i \in bad : \A j \in bad : i <= j]

\* createRoleForChannel storing the input's permissions as given
createRoleWithGivenPermissions(rs, input, channel) ==
    save(rs, 0, [code |-> input.code,
                 description |-> input.description,
                 permissions |-> input.permissions,
                 channels |-> {channel}])

\* createRoleForChannel binding the role to the default channel
createRoleForDefaultChannel(rs, input, channel) ==
    save(rs, 0, [code |-> input.code,
                 description |-> input.description,
                 permissions |-> unique(<<"Authenticated">> \o input.permissions),
                 channels |-> {DefaultChannel}])

createRoleForChannel(rs, input, channel) ==
    save(rs, 0, [code |-> input.code,
                 description |-> input.description,
                 permissions |-> unique(<<"Authenticated">> \o input.permissions),
                 channels |-> {channel}])

Fail(rs, err, detail) == [err |-> err, detail |-> detail, roles |-> rs, id |-> 0]

\* create with the permission check on the target channel left out
createWithoutPermissionCheck(rs, ctx, input) ==
    LET invalid == checkPermissionsAreValid(Some(input.permissions))
        targetChannel == IF input.channelId # Undefined THEN input.channelId ELSE ctx.channel
    IN IF invalid # "" THEN Fail(rs, "UserInputError", invalid)
       ELSE IF input.channelId # Undefined /\ input.channelId \notin Channels
       THEN Fail(rs, "EntityNotFoundError", "Channel")
       ELSE IF ctx.activeUserId = Undefined THEN Fail(rs, "ForbiddenError", "")
       ELSE LET saved == createRoleForChannel(rs, input, targetChannel)
            IN [err |-> saved.err, detail |-> "", roles |-> saved.roles, id |-> saved.id]

\* create falling back to the context's channel when input.channelId matches
\* no channel
createDefaultingUnknownChannel(rs, ctx, input) ==
    LET invalid == checkPermissionsAreValid(Some(input.permissions))
        targetChannel == IF input.channelId # Undefined /\ input.channelId \in Channels
                         THEN input.channelId ELSE ctx.channel
    IN IF invalid # "" THEN Fail(rs, "UserInputError", invalid)
       ELSE IF ctx.activeUserId = Undefined THEN Fail(rs, "ForbiddenError", "")
       ELSE LET hasPermission == userHasPermissionOnChannel(rs, ctx.activeUserId,
                                                            targetChannel, "CreateAdministrator")
            IN IF hasPermission.err # "none" THEN Fail(rs, hasPermission.err, "User")
               ELSE IF ~hasPermission.val THEN Fail(rs, "ForbiddenError", "")
               ELSE LET saved == createRoleForChannel(rs, input, targetChannel)
                    IN [err |-> saved.err, detail |-> "", roles |-> saved.roles, id |-> saved.id]

\* create resolving the target channel before it validates the permissions
createResolvingChannelFirst(rs, ctx, input) ==
    LET invalid == checkPermissionsAreValid(Some(input.permissions))
        targetChannel == IF input.channelId # Undefined THEN input.channelId ELSE ctx.channel
    IN IF input.channelId # Undefined /\ input.channelId \notin Channels
       THEN Fail(rs, "EntityNotFoundError", "Channel")
       ELSE IF invalid # "" THEN Fail(rs, "UserInputError", invalid)
       ELSE IF ctx.activeUserId = Undefined THEN Fail(rs, "ForbiddenError", "")
       ELSE LET hasPermission == userHasPermissionOnChannel(rs, ctx.activeUserId,
                                                            targetChannel, "CreateAdministrator")
            IN IF hasPermission.err # "none" THEN Fail(rs, hasPermission.err, "User")
               ELSE IF ~hasPermission.val THEN Fail(rs, "ForbiddenError", "")
               ELSE LET saved == createRoleForChannel(rs, input, targetChannel)
                    IN [err |-> saved.err, detail |-> "", roles |-> saved.roles, id |-> saved.id]

create(rs, ctx, input) ==
    LET invalid == checkPermissionsAreValid(Some(input.permissions))
        targetChannel == IF input.channelId # Undefined THEN input.channelId ELSE ctx.channel
    IN IF invalid # "" THEN Fail(rs, "UserInputError", invalid)
       ELSE IF input.channelId # Undefined /\ input.channelId \notin Channels
       THEN Fail(rs, "EntityNotFoundError", "Channel")
       ELSE IF ctx.activeUserId = Undefined THEN Fail(rs, "ForbiddenError", "")
       ELSE LET hasPermission == userHasPermissionOnChannel(rs, ctx.activeUserId,
                                                            targetChannel, "CreateAdministrator")
            IN IF hasPermission.err # "none" THEN Fail(rs, hasPermission.err, "User")
               ELSE IF ~hasPermission.val THEN Fail(rs, "ForbiddenError", "")
               ELSE LET saved == createRoleForChannel(rs, input, targetChannel)
                    IN [err |-> saved.err, detail |-> "", roles |-> saved.roles, id |-> saved.id]

\* the patch and save of update writing every field of the input, supplied
\* or not
patchAndSaveEveryField(rs, role, input) ==
    LET updatedRole ==
            [code |-> input.code,
             description |-> input.description,
             permissions |-> IF input.permissions # None
                             THEN unique(<<"Authenticated">> \o input.permissions[1])
                             ELSE <<"Authenticated">>,
             channels |-> rs[role].channels]
        saved == save(rs, role, updatedRole)
    IN [err |-> saved.err, detail |-> "", roles |-> saved.roles, id |-> saved.id]

\* the patch and save of update (lines 131-139)
patchAndSave(rs, role, input) ==
    LET updatedRole ==
            patchEntity(rs[role],
                        [code |-> input.code,
                         description |-> input.description,
                         permissions |-> IF input.permissions # None
                                         THEN Some(unique(<<"Authenticated">> \o input.permissions[1]))
                                         ELSE None])
        saved == save(rs, role, updatedRole)
    IN [err |-> saved.err, detail |-> "", roles |-> saved.roles, id |-> saved.id]

\* update protecting the SuperAdmin role only
updateProtectingSuperAdminOnly(rs, input) ==
    LET invalid == checkPermissionsAreValid(input.permissions)
        role == findOne(rs, input.id)
    IN IF invalid # "" THEN Fail(rs, "UserInputError", invalid)
       ELSE IF role = 0 THEN Fail(rs, "EntityNotFoundError", "Role")
       ELSE IF rs[role].code = SUPER_ADMIN_ROLE_CODE
       THEN Fail(rs, "InternalServerError", rs[role].code)
       ELSE patchAndSave(rs, role, input)

\* update with no protection of the system roles
updateUnprotected(rs, input) ==
    LET invalid == checkPermissionsAreValid(input.permissions)
        role == findOne(rs, input.id)
    IN IF invalid # "" THEN Fail(rs, "UserInputError", invalid)
       ELSE IF role = 0 THEN Fail(rs, "EntityNotFoundError", "Role")
       ELSE patchAndSave(rs, role, input)

update(rs, input) ==
    LET invalid == checkPermissionsAreValid(input.permissions)
        role == findOne(rs, input.id)
    IN IF invalid # "" THEN Fail(rs, "UserInputError", invalid)
       ELSE IF role = 0 THEN Fail(rs, "EntityNotFoundError", "Role")
       ELSE IF rs[role].code = SUPER_ADMIN_ROLE_CODE \/ rs[role].code = CUSTOMER_ROLE_CODE
       THEN Fail(rs, "InternalServerError", rs[role].code)
       ELSE patchAndSave(rs, role, input)

\* channelService.assignToChannel(Role, roleId, channelId): adds the channel to
\* the role's channels; EntityNotFoundError when either id matches no row
assignToChannel(rs, roleId, channelId) ==
    IF roleId \notin DOMAIN rs THEN Fail(rs, "EntityNotFoundError", "Role")
    ELSE IF channelId \notin Channels THEN Fail(rs, "EntityNotFoundError", "Channel")
    ELSE [err |-> "none", detail |-> "",
          roles |-> [rs EXCEPT ![roleId].channels = @ \cup {channelId}], id |-> roleId]

\* assignRoleToChannel passing the default channel on
assignRoleToDefaultChannel(rs, roleId, channelId) == assignToChannel(rs, roleId, DefaultChannel)

assignRoleToChannel(rs, roleId, channelId) == assignToChannel(rs, roleId, channelId)

\* Object.values(Permission).filter(p => p !== Permission.Owner)
allPermissionsExceptOwner == SelectSeq(PermissionValues, LAMBDA p : p # "Owner")

hasAllPermissions(role) ==
    \A i \in DOMAIN allPermissionsExceptOwner : allPermissionsExceptOwner[i] \in Range(role.permissions)

superAdminInput ==
    [code |-> SUPER_ADMIN_ROLE_CODE, description |-> SUPER_ADMIN_ROLE_DESCRIPTION,
     permissions |-> allPermissionsExceptOwner]

customerInput ==
    [code |-> CUSTOMER_ROLE_CODE, description |-> CUSTOMER_ROLE_DESCRIPTION,
     permissions |-> <<"Authenticated">>]

\* the save of the try block: the loaded role with its permissions replaced
saveSuperAdminPermissions(rs, id) ==
    save(rs, id, [rs[id] EXCEPT !.permissions = allPermissionsExceptOwner])

ensureSuperAdminRoleExists(rs) ==
    LET got == getSuperAdminRole(rs)
        tried == IF got.err # "none" THEN [err |-> got.err, roles |-> rs, id |-> 0]
                 ELSE IF ~hasAllPermissions(rs[got.id])
                      THEN saveSuperAdminPermissions(rs, got.id)
                      ELSE [err |-> "none", roles |-> rs, id |-> got.id]
    IN IF tried.err = "none" THEN tried
       ELSE createRoleForChannel(tried.roles, superAdminInput, DefaultChannel)

\* ensureCustomerRoleExists creating the role without looking it up
ensureCustomerRoleCreated(rs) == createRoleForChannel(rs, customerInput, DefaultChannel)

ensureCustomerRoleExists(rs) ==
    LET got == getCustomerRole(rs)
    IN IF got.err = "none" THEN [err |-> "none", roles |-> rs, id |-> got.id]
       ELSE createRoleForChannel(rs, customerInput, DefaultChannel)

initRoles(rs) ==
    LET sa == ensureSuperAdminRoleExists(rs)
    IN IF sa.err # "none" THEN Fail(sa.roles, sa.err, SUPER_ADMIN_ROLE_CODE)
       ELSE LET cust == ensureCustomerRoleExists(sa.roles)
            IN IF cust.err # "none" THEN Fail(cust.roles, cust.err, CUSTOMER_ROLE_CODE)
               ELSE [err |-> "none", detail |-> "", roles |-> cust.roles, id |-> 0]

----------------------------------------------------------------------------
(* The service as a state machine: one action per call *)

\* the processes that may run initRoles() at the same time
Procs == {"p1", "p2", "p3"}

\* an installation of an earlier release, whose catalog had no CreateAdministrator
legacySuperAdmin ==
    [code |-> SUPER_ADMIN_ROLE_CODE, description |-> SUPER_ADMIN_ROLE_DESCRIPTION,
     permissions |-> <<"Authenticated", "ReadCatalog">>, channels |-> {DefaultChannel}]

customerRole ==
    [code |-> CUSTOMER_ROLE_CODE, description |-> CUSTOMER_ROLE_DESCRIPTION,
     permissions |-> <<"Authenticated">>, channels |-> {DefaultChannel}]

\* the role table at process start: a fresh install, or an earlier release's
InitialStores == { << >>, <<legacySuperAdmin, customerRole>> }

NoResult == [op |-> "none", err |-> "none", detail |-> "", id |-> 0]

\* no update call in progress
NoCall == [input |-> Undefined, entity |-> Undefined]

\* what the stepwise specifications start with, the role table aside
Idle ==
    /\ result = NoResult
    /\ initDone = FALSE
    /\ pc = [p \in Procs |-> "idle"]
    /\ loaded = [p \in Procs |-> 0]
    /\ log = [p \in Procs |-> << >>]
    /\ inFlight = [p \in Procs |-> NoCall]

Init ==
    /\ roles \in InitialStores
    /\ Idle

Contexts == [activeUserId : UserIds \cup {Undefined}, channel : Channels]

CreateRoleInputs ==
    [code : Codes, description : Descriptions, permissions : PermLists,
     channelId : ChannelIds \cup {Undefined}]

\* the create calls: a context and an input (the context's channel varies
\* where the input names no channel)
CreateCalls ==
    {c \in Contexts \X CreateRoleInputs : c[2].channelId = Undefined \/ c[1].channel = DefaultChannel}

UpdateRoleInputs ==
    [id : 1..(MaxRoles + 1), code : Codes \cup {Undefined},
     description : Descriptions \cup {Undefined},
     permissions : {None} \cup {Some(l) : l \in PermLists}]

Respond(op, o) ==
    /\ Len(o.roles) <= MaxRoles
    /\ roles' = o.roles
    /\ result' = [op |-> op, err |-> o.err, detail |-> o.detail, id |-> o.id]

InitRoles ==
    /\ Respond("initRoles", initRoles(roles))
    /\ initDone' = (initDone \/ result'.err = "none")
    /\ UNCHANGED <<pc, loaded, log, inFlight>>

Create ==
    \E call \in CreateCalls :
        /\ Respond("create", create(roles, call[1], call[2]))
        /\ UNCHANGED <<initDone, pc, loaded, log, inFlight>>

Update ==
    \E input \in UpdateRoleInputs :
        /\ Respond("update", update(roles, input))
        /\ UNCHANGED <<initDone, pc, loaded, log, inFlight>>

AssignRoleToChannel ==
    \E roleId \in 1..(MaxRoles + 1), channelId \in ChannelIds :
        /\ Respond("assignRoleToChannel", assignRoleToChannel(roles, roleId, channelId))
        /\ UNCHANGED <<initDone, pc, loaded, log, inFlight>>

UserHasPermissionOnChannel ==
    \E userId \in UserIds, channelId \in ChannelIds, permission \in Range(PermissionValues) :
        /\ LET q == userHasPermissionOnChannel(roles, userId, channelId, permission)
           IN result' = [op |-> "userHasPermissionOnChannel", err |-> q.err,
                         detail |-> IF q.val THEN "true" ELSE "false", id |-> 0]
        /\ UNCHANGED <<roles, initDone, pc, loaded, log, inFlight>>

Next == InitRoles \/ Create \/ Update \/ AssignRoleToChannel \/ UserHasPermissionOnChannel

Spec == Init /\ [][Next]_vars

----------------------------------------------------------------------------
(* The service started on the role table of an earlier release whose        *)
(* catalog still had a permission that this release's catalog has dropped   *)

retiredSuperAdmin ==
    [code |-> SUPER_ADMIN_ROLE_CODE, description |-> SUPER_ADMIN_ROLE_DESCRIPTION,
     permissions |-> <<"Authenticated", "ReadCatalog", "RetiredPermission">>,
     channels |-> {DefaultChannel}]

UpgradeStores == { <<retiredSuperAdmin, customerRole>> }

UpgradeInit ==
    /\ roles \in UpgradeStores
    /\ Idle

UpgradeSpec == UpgradeInit /\ [][Next]_vars

----------------------------------------------------------------------------
(* initRoles step by step: processes start against one store, and each      *)
(* await of ensureSuperAdminRoleExists / ensureCustomerRoleExists is a step *)
(* whose storage call answers `got` / `saved`; log keeps, per process, the  *)
(* storage calls it has made and how each ended                             *)

Logged(p, name, code, err) ==
    log' = [log EXCEPT ![p] = Append(@, [op |-> name, code |-> code, err |-> err])]

\* a storage call rejected for a passing reason (connection lost, timeout)
TransientError == "TransientError"

\* a process calls initRoles()
InitRolesStartingWithCustomer(p) ==
    /\ pc[p] = "idle"
    /\ pc' = [pc EXCEPT ![p] = "ensureCustomer"]
    /\ UNCHANGED <<roles, result, initDone, loaded, log, inFlight>>

InitRolesStart(p) ==
    /\ pc[p] = "idle"
    /\ pc' = [pc EXCEPT ![p] = "ensureSuperAdmin"]
    /\ UNCHANGED <<roles, result, initDone, loaded, log, inFlight>>

\* await this.getSuperAdminRole() and the test of its permissions; an error
\* of the lookup, whatever it is, goes to the catch block
SuperAdminLookupStep(p, got) ==
    /\ pc[p] = "ensureSuperAdmin"
    /\ pc' = [pc EXCEPT ![p] =
                IF got.err # "none" THEN "createSuperAdmin"
                ELSE IF ~hasAllPermissions(roles[got.id]) THEN "saveSuperAdmin"
                ELSE "ensureCustomer"]
    /\ loaded' = [loaded EXCEPT ![p] = got.id]
    /\ Logged(p, "getRoleByCode", SUPER_ADMIN_ROLE_CODE, got.err)
    /\ UNCHANGED <<roles, result, initDone, inFlight>>

SuperAdminLookup(p) == SuperAdminLookupStep(p, getSuperAdminRole(roles))

\* await this.connection.getRepository(Role).save(superAdminRole); an error of
\* the save goes to the catch block too
SuperAdminSaveStep(p, saved) ==
    /\ pc[p] = "saveSuperAdmin"
    /\ roles' = saved.roles
    /\ pc' = [pc EXCEPT ![p] = IF saved.err # "none" THEN "createSuperAdmin"
                               ELSE "ensureCustomer"]
    /\ Logged(p, "save", SUPER_ADMIN_ROLE_CODE, saved.err)
    /\ UNCHANGED <<result, initDone, loaded, inFlight>>

SuperAdminSave(p) == SuperAdminSaveStep(p, saveSuperAdminPermissions(roles, loaded[p]))

\* the catch block: await this.createRoleForChannel(...); its error is not caught
SuperAdminCreateStep(p, saved) ==
    /\ pc[p] = "createSuperAdmin"
    /\ roles' = saved.roles
    /\ pc' = [pc EXCEPT ![p] = IF saved.err # "none" THEN "failed"
                               ELSE "ensureCustomer"]
    /\ Logged(p, "create", SUPER_ADMIN_ROLE_CODE, saved.err)
    /\ UNCHANGED <<result, initDone, loaded, inFlight>>

SuperAdminCreate(p) ==
    SuperAdminCreateStep(p, createRoleForChannel(roles, superAdminInput, DefaultChannel))

\* await this.getCustomerRole()
CustomerLookupStep(p, got) ==
    /\ pc[p] = "ensureCustomer"
    /\ pc' = [pc EXCEPT ![p] = IF got.err # "none" THEN "createCustomer" ELSE "done"]
    /\ loaded' = [loaded EXCEPT ![p] = got.id]
    /\ Logged(p, "getRoleByCode", CUSTOMER_ROLE_CODE, got.err)
    /\ UNCHANGED <<roles, result, initDone, inFlight>>

CustomerLookup(p) == CustomerLookupStep(p, getCustomerRole(roles))

\* the catch block: await this.createRoleForChannel(...); its error is not caught
CustomerCreateStep(p, saved) ==
    /\ pc[p] = "createCustomer"
    /\ roles' = saved.roles
    /\ pc' = [pc EXCEPT ![p] = IF saved.err # "none" THEN "failed" ELSE "done"]
    /\ Logged(p, "create", CUSTOMER_ROLE_CODE, saved.err)
    /\ UNCHANGED <<result, initDone, loaded, inFlight>>

CustomerCreate(p) ==
    CustomerCreateStep(p, createRoleForChannel(roles, customerInput, DefaultChannel))

\* the role table when the processes start together: a fresh install, an
\* earlier release's, or what a start that stopped half way left
ConcInitialStores ==
    InitialStores \cup {ensureSuperAdminRoleExists(<< >>).roles, initRoles(<< >>).roles,
                        <<legacySuperAdmin>>}

ConcInit ==
    /\ roles \in ConcInitialStores
    /\ Idle

ConcNext ==
    \E p \in Procs :
        \/ InitRolesStart(p)
        \/ SuperAdminLookup(p)
        \/ SuperAdminSave(p)
        \/ SuperAdminCreate(p)
        \/ CustomerLookup(p)
        \/ CustomerCreate(p)

ConcSpec == ConcInit /\ [][ConcNext]_vars

----------------------------------------------------------------------------
(* initRoles step by step over a store whose calls may fail transiently:    *)
(* the failed call writes nothing and rejects with TransientError           *)

FaultsSoFar ==
    LET Faults(p) == Cardinality({k \in DOMAIN log[p] : log[p][k].err = TransientError})
        RECURSIVE Sum(_)
        Sum(ps) == IF ps = {} THEN 0
                   ELSE LET q == CHOOSE q \in ps : TRUE IN Faults(q) + Sum(ps \ {q})
    IN Sum(Procs)

Rejected == [err |-> TransientError, roles |-> roles, id |-> 0]

SuperAdminLookupFails(p) == FaultsSoFar < MaxFaults /\ SuperAdminLookupStep(p, Rejected)

SuperAdminSaveFails(p) == FaultsSoFar < MaxFaults /\ SuperAdminSaveStep(p, Rejected)

SuperAdminCreateFails(p) == FaultsSoFar < MaxFaults /\ SuperAdminCreateStep(p, Rejected)

CustomerLookupFails(p) == FaultsSoFar < MaxFaults /\ CustomerLookupStep(p, Rejected)

CustomerCreateFails(p) == FaultsSoFar < MaxFaults /\ CustomerCreateStep(p, Rejected)

FaultNext ==
    \/ ConcNext
    \/ \E p \in Procs :
          \/ SuperAdminLookupFails(p)
          \/ SuperAdminSaveFails(p)
          \/ SuperAdminCreateFails(p)
          \/ CustomerLookupFails(p)
          \/ CustomerCreateFails(p)

FaultSpec == ConcInit /\ [][FaultNext]_vars

----------------------------------------------------------------------------
(* update step by step: each await of update (findOne, save, findOne) is a  *)
(* step; inFlight keeps, per process, the input of its call and the entity  *)
(* that its findOne loaded                                                  *)

\* the processes that call update at the same time
UpdateProcs == {"p1", "p2"}

\* the inputs of the concurrent calls: patches of the Customer role, of role
\* 3, and of a role that does not exist
PatchInputs ==
    {input \in UpdateRoleInputs :
        /\ input.id \in 2..(MaxRoles + 1)
        /\ input.code \in {Undefined, "viewer"}
        /\ input.permissions \in {None, Some(<<"CreateAdministrator">>), Some(<<"Bogus">>)}}

\* a process calls update(input): checkPermissionsAreValid runs before the
\* first await
UpdateStart(p) ==
    /\ pc[p] = "idle"
    /\ \E input \in PatchInputs :
          /\ inFlight' = [inFlight EXCEPT ![p].input = input]
          /\ pc' = [pc EXCEPT ![p] = IF checkPermissionsAreValid(input.permissions) # ""
                                     THEN "failed" ELSE "findOne"]
    /\ UNCHANGED <<roles, result, initDone, loaded, log>>

\* await this.findOne(input.id), and the two tests of what it returned
UpdateFindOne(p) ==
    /\ pc[p] = "findOne"
    /\ LET role == findOne(roles, inFlight[p].input.id)
       IN IF role = 0
          THEN pc' = [pc EXCEPT ![p] = "failed"] /\ UNCHANGED inFlight
          ELSE IF roles[role].code = SUPER_ADMIN_ROLE_CODE \/ roles[role].code = CUSTOMER_ROLE_CODE
          THEN pc' = [pc EXCEPT ![p] = "failed"] /\ UNCHANGED inFlight
          ELSE /\ pc' = [pc EXCEPT ![p] = "save"]
               /\ inFlight' = [inFlight EXCEPT ![p].entity = roles[role]]
    /\ UNCHANGED <<roles, result, initDone, loaded, log>>

\* patchEntity on the loaded entity and await save(updatedRole): the row is
\* written from the entity this call loaded
UpdateSave(p) ==
    /\ pc[p] = "save"
    /\ LET id == inFlight[p].input.id
           saved == patchAndSave([roles EXCEPT ![id] = inFlight[p].entity], id, inFlight[p].input)
       IN /\ roles' = IF saved.err # "none" THEN roles ELSE saved.roles
          /\ pc' = [pc EXCEPT ![p] = IF saved.err # "none" THEN "failed" ELSE "reread"]
    /\ UNCHANGED <<result, initDone, loaded, log, inFlight>>

\* return assertFound(this.findOne(role.id))
UpdateReread(p) ==
    /\ pc[p] = "reread"
    /\ pc' = [pc EXCEPT ![p] = IF findOne(roles, inFlight[p].input.id) = 0 THEN "failed" ELSE "done"]
    /\ UNCHANGED <<roles, result, initDone, loaded, log, inFlight>>

\* the role table when the calls start: the two system roles and a custom
\* role that an administrator created
UpdateStores ==
    {createRoleForChannel(initRoles(<< >>).roles,
                          [code |-> "editor", description |-> d, permissions |-> << >>],
                          DefaultChannel).roles : d \in Descriptions}

UpdateInit ==
    /\ roles \in UpdateStores
    /\ Idle

UpdateNext ==
    \E p \in UpdateProcs :
        \/ UpdateStart(p)
        \/ UpdateFindOne(p)
        \/ UpdateSave(p)
        \/ UpdateReread(p)

UpdateSpec == UpdateInit /\ [][UpdateNext]_vars

----------------------------------------------------------------------------
(* Properties *)

\* user u owns a stored role that is assigned to channel c and lists p
HoldsOn(u, c, p) ==
    /\ u \in Users
    /\ \E i \in UserRoles[u] \cap DOMAIN roles :
          c \in roles[i].channels /\ p \in Range(roles[i].permissions)

TargetOf(ctx, input) == IF input.channelId # Undefined THEN input.channelId ELSE ctx.channel

Authorized(ctx, input) ==
    /\ ctx.activeUserId # Undefined
    /\ HoldsOn(ctx.activeUserId, TargetOf(ctx, input), "CreateAdministrator")

ValidList(list) == \A i \in DOMAIN list : \E k \in DOMAIN PermissionValues : PermissionValues[k] = list[i]

\* the first element of the list, in list order, that is outside the catalog
RECURSIVE FirstInvalid(_)
FirstInvalid(list) ==
    IF list = << >> THEN ""
    ELSE IF ~ValidList(<<Head(list)>>) THEN Head(list)
    ELSE FirstInvalid(Tail(list))

CountCode(rs, code) == Cardinality({i \in DOMAIN rs : rs[i].code = code})

\* C1: for an existing user u, userHasPermissionOnChannel(u, c, p) answers
\* without error, and answers true exactly when some role of u is assigned to
\* channel c and lists p; so it is false for a channel none of u's roles has.
C1_PermissionOnChannel ==
    \A u \in Users, c \in ChannelIds, k \in DOMAIN PermissionValues :
        LET q == userHasPermissionOnChannel(roles, u, c, PermissionValues[k])
        IN q.err = "none" /\ (q.val <=> HoldsOn(u, c, PermissionValues[k]))

\* a query was answered while a user with two stored roles holds
\* CreateAdministrator on one channel and not on the other
C1_Witness ==
    /\ result.op = "userHasPermissionOnChannel"
    /\ result.err = "none"
    /\ result.detail = "true"
    /\ \E u \in Users :
          /\ Cardinality(UserRoles[u] \cap DOMAIN roles) = 2
          /\ \E c, d \in Channels :
                HoldsOn(u, c, "CreateAdministrator") /\ ~HoldsOn(u, d, "CreateAdministrator")

\* C2 as stated: create succeeds only for an acting user who holds
\* CreateAdministrator on the target channel, and every other create call
\* fails with ForbiddenError and persists nothing.
C2_Original ==
    \A call \in CreateCalls :
        LET o == create(roles, call[1], call[2])
        IN /\ o.err = "none" => Authorized(call[1], call[2])
           /\ ~Authorized(call[1], call[2]) => (o.err = "ForbiddenError" /\ o.roles = roles)

\* C2 as amended: create succeeds only for an acting user who holds
\* CreateAdministrator on the target channel; every other create call fails
\* and persists nothing, and its error is ForbiddenError whenever the
\* permission list is valid, the target channel exists and the acting user, if
\* the context names one, exists.
C2_CreateNeedsPermission ==
    \A call \in CreateCalls :
        LET ctx == call[1]
            input == call[2]
            o == create(roles, ctx, input)
        IN /\ o.err = "none" => Authorized(ctx, input)
           /\ ~Authorized(ctx, input) =>
                 /\ o.err # "none"
                 /\ o.roles = roles
                 /\ ( /\ ValidList(input.permissions)
                      /\ TargetOf(ctx, input) \in Channels
                      /\ ctx.activeUserId \in Users \cup {Undefined} )
                    => o.err = "ForbiddenError"

\* a create call was refused with ForbiddenError while some user holds
\* CreateAdministrator on one channel and not on the other
C2_Witness ==
    /\ result.op = "create"
    /\ result.err = "ForbiddenError"
    /\ \E u \in Users : \E c, d \in Channels :
          HoldsOn(u, c, "CreateAdministrator") /\ ~HoldsOn(u, d, "CreateAdministrator")

\* C3: a create or update call whose permission list holds an identifier
\* outside the catalog fails with UserInputError naming the first such
\* identifier in list order, and leaves the role store as it was.
C3_InvalidPermissionRejected ==
    /\ \A call \in CreateCalls :
          ~ValidList(call[2].permissions) =>
              LET o == create(roles, call[1], call[2])
              IN /\ o.err = "UserInputError"
                 /\ o.detail = FirstInvalid(call[2].permissions)
                 /\ o.roles = roles
    /\ \A input \in UpdateRoleInputs :
          (input.permissions # None /\ ~ValidList(input.permissions[1])) =>
              LET o == update(roles, input)
              IN /\ o.err = "UserInputError"
                 /\ o.detail = FirstInvalid(input.permissions[1])
                 /\ o.roles = roles

\* an update of a store that holds a custom role was refused for "Bogus"
C3_Witness ==
    /\ result.op = "update"
    /\ result.err = "UserInputError"
    /\ result.detail = "Bogus"
    /\ Len(roles) = 3

\* C4: every stored role's permissions are catalog members and include
\* Authenticated.
C4_PermissionsWellFormed ==
    \A i \in DOMAIN roles :
        /\ ValidList(roles[i].permissions)
        /\ \E k \in DOMAIN roles[i].permissions : roles[i].permissions[k] = "Authenticated"

\* an update whose list omitted Authenticated has been stored, next to a
\* SuperAdmin role that holds the whole catalog but Owner
C4_Witness ==
    /\ result.op = "update"
    /\ result.err = "none"
    /\ Len(roles) = 3
    /\ roles[3].permissions = <<"Authenticated", "CreateAdministrator">>
    /\ Range(roles[1].permissions) = {"Authenticated", "CreateAdministrator", "ReadCatalog"}

\* C5: update of a role whose code is the SuperAdmin or the Customer code,
\* with valid permissions, fails with InternalServerError naming that code
\* and leaves the store unchanged, whatever the other fields are.
C5_SystemRolesNotUpdatable ==
    \A input \in UpdateRoleInputs :
        ( /\ input.id \in DOMAIN roles
          /\ roles[input.id].code \in {SUPER_ADMIN_ROLE_CODE, CUSTOMER_ROLE_CODE}
          /\ (input.permissions = None \/ ValidList(input.permissions[1])) ) =>
            LET o == update(roles, input)
            IN /\ o.err = "InternalServerError"
               /\ o.detail = roles[input.id].code
               /\ o.roles = roles

\* an update of the Customer role was refused
C5_Witness ==
    /\ result.op = "update"
    /\ result.err = "InternalServerError"
    /\ result.detail = CUSTOMER_ROLE_CODE
    /\ CountCode(roles, CUSTOMER_ROLE_CODE) = 1

\* C6: once initRoles has completed, exactly one stored role has the
\* SuperAdmin code and exactly one has the Customer code, whatever codes
\* create and update are passed afterwards.
C6_OneOfEachSystemRole ==
    initDone =>
        /\ CountCode(roles, SUPER_ADMIN_ROLE_CODE) = 1
        /\ CountCode(roles, CUSTOMER_ROLE_CODE) = 1

\* after initRoles, a create that passed a stored code was rejected by the
\* store while a custom role exists
C6_Witness ==
    /\ initDone
    /\ result.op = "create"
    /\ result.err = "QueryFailedError"
    /\ Len(roles) = 3

\* C7: initRoles run twice in sequence succeeds both times, the second run
\* leaves the store of the first unchanged, the SuperAdmin and the Customer
\* role each exist once, and SuperAdmin's permissions are the catalog
\* without Owner.
C7_InitRolesIdempotent ==
    LET first == initRoles(roles)
        second == initRoles(first.roles)
        superAdmins == {i \in DOMAIN second.roles : second.roles[i].code = SUPER_ADMIN_ROLE_CODE}
    IN /\ first.err = "none"
       /\ second.err = "none"
       /\ second.roles = first.roles
       /\ Cardinality(superAdmins) = 1
       /\ CountCode(second.roles, CUSTOMER_ROLE_CODE) = 1
       /\ \A i \in superAdmins :
             Range(second.roles[i].permissions) = Range(PermissionValues) \ {"Owner"}

\* initRoles has run again on a store that an earlier run and a later create
\* left
C7_Witness ==
    /\ result.op = "initRoles"
    /\ result.err = "none"
    /\ initDone
    /\ Len(roles) = 3

\* C8 as stated: of the initRoles calls that race, none ends with an error,
\* and when both have ended each system role exists exactly once.
C8_RaceTolerated ==
    /\ \A p \in Procs : pc[p] # "failed"
    /\ (\A p \in Procs : pc[p] \in {"done", "failed"}) =>
          /\ CountCode(roles, SUPER_ADMIN_ROLE_CODE) = 1
          /\ CountCode(roles, CUSTOMER_ROLE_CODE) = 1

\* C9 as stated: a create call with valid permissions by an absent acting
\* user, or one without CreateAdministrator on the channel the input names,
\* ends with ForbiddenError whether or not that channel exists.
C9_ForbiddenHidesExistence ==
    \A call \in CreateCalls :
        ( /\ ValidList(call[2].permissions)
          /\ call[2].channelId # Undefined
          /\ call[1].activeUserId \in Users \cup {Undefined}
          /\ ~Authorized(call[1], call[2]) ) =>
            create(roles, call[1], call[2]).err = "ForbiddenError"

\* C10: a successful create appends exactly one role: its code and
\* description are the input's, its permissions are Authenticated and the
\* input's permissions without duplicates, its channel set is the target
\* channel alone, and every role stored before is unchanged.
C10_CreateStoresOneRole ==
    \A call \in CreateCalls :
        LET ctx == call[1]
            input == call[2]
            o == create(roles, ctx, input)
        IN o.err = "none" =>
            /\ Len(o.roles) = Len(roles) + 1
            /\ o.id = Len(o.roles)
            /\ \A i \in DOMAIN roles : o.roles[i] = roles[i]
            /\ o.roles[o.id].code = input.code
            /\ o.roles[o.id].description = input.description
            /\ Range(o.roles[o.id].permissions) = {"Authenticated"} \cup Range(input.permissions)
            /\ Len(o.roles[o.id].permissions) = Cardinality(Range(o.roles[o.id].permissions))
            /\ o.roles[o.id].channels = {TargetOf(ctx, input)}

\* a create that named channel c2 has stored a role bound to c2 alone
C10_Witness ==
    /\ result.op = "create"
    /\ result.err = "none"
    /\ result.id = Len(roles)
    /\ roles[result.id].channels = {"c2"}
    /\ roles[result.id].permissions = <<"Authenticated", "CreateAdministrator">>

\* C11: validation of the permission list comes before every authorization
\* check, lookup and write: a create call with an invalid permission ends
\* with UserInputError and an unchanged store even when the acting user is
\* absent or unknown, lacks CreateAdministrator on the target channel, or the
\* input names a channel that does not exist; an update call with an invalid
\* permission does so even when its id matches no role or a system role.
C11_ValidationFirst ==
    /\ \A call \in CreateCalls :
          ( /\ ~ValidList(call[2].permissions)
            /\ \/ call[1].activeUserId \notin Users
               \/ ~Authorized(call[1], call[2])
               \/ TargetOf(call[1], call[2]) \notin Channels ) =>
              LET o == create(roles, call[1], call[2])
              IN o.err = "UserInputError" /\ o.roles = roles
    /\ \A input \in UpdateRoleInputs :
          ( /\ input.permissions # None
            /\ ~ValidList(input.permissions[1])
            /\ \/ input.id \notin DOMAIN roles
               \/ roles[input.id].code \in {SUPER_ADMIN_ROLE_CODE, CUSTOMER_ROLE_CODE} ) =>
              LET o == update(roles, input)
              IN o.err = "UserInputError" /\ o.roles = roles

\* a create call was refused for its permission list on an empty store, where
\* no user holds CreateAdministrator on any channel
C11_Witness ==
    /\ result.op = "create"
    /\ result.err = "UserInputError"
    /\ result.detail = "NotARealPermission"
    /\ roles = << >>

\* C12 as stated: a storage call that fails transiently ends the operation
\* with that same error, and the operation makes no storage call after it;
\* a failed lookup or save of the SuperAdmin role in particular is not
\* followed by the creation of another SuperAdmin role.
C12_FailuresPropagate ==
    /\ \A p \in Procs : \A k \in DOMAIN log[p] :
          log[p][k].err = TransientError => (k = Len(log[p]) /\ pc[p] = "failed")
    /\ CountCode(roles, SUPER_ADMIN_ROLE_CODE) <= 1

\* C13 as stated: whenever initRoles runs while a SuperAdmin role exists, the
\* role's permissions after the call include every permission it held
\* before the call.
C13_HealingOnlyAdds ==
    LET o == initRoles(roles)
    IN \A i \in DOMAIN roles :
          roles[i].code = SUPER_ADMIN_ROLE_CODE =>
              Range(roles[i].permissions) \subseteq Range(o.roles[i].permissions)

\* C14: a successful update changes, in the role its id names, only the
\* fields the input supplies: code and description are overwritten only when
\* supplied, the permissions become Authenticated plus the supplied list only
\* when a list is supplied, and the channel set stays; the role keeps its
\* id, no other role changes and none is added, and the role returned is the
\* one stored under that id after the write.
C14_UpdateChangesSuppliedFieldsOnly ==
    \A input \in UpdateRoleInputs :
        LET o == update(roles, input)
            id == input.id
        IN o.err = "none" =>
            /\ id \in DOMAIN roles
            /\ roles[id].code \notin {SUPER_ADMIN_ROLE_CODE, CUSTOMER_ROLE_CODE}
            /\ o.id = id
            /\ DOMAIN o.roles = DOMAIN roles
            /\ \A j \in DOMAIN roles : j # id => o.roles[j] = roles[j]
            /\ o.roles[id].code = IF input.code # Undefined THEN input.code ELSE roles[id].code
            /\ o.roles[id].description =
                  IF input.description # Undefined THEN input.description
                  ELSE roles[id].description
            /\ IF input.permissions # None
               THEN Range(o.roles[id].permissions) =
                        {"Authenticated"} \cup Range(input.permissions[1])
               ELSE o.roles[id].permissions = roles[id].permissions
            /\ o.roles[id].channels = roles[id].channels

\* an update has been stored for a custom role that is assigned to two
\* channels and lists CreateAdministrator
C14_Witness ==
    /\ result.op = "update"
    /\ result.err = "none"
    /\ result.id = 3
    /\ Len(roles) = 3
    /\ roles[3].channels = Channels
    /\ "CreateAdministrator" \in Range(roles[3].permissions)

\* C15 as stated: an update whose id matches no stored role fails with
\* EntityNotFoundError for the entity Role, and a create whose input.channelId
\* matches no channel fails with EntityNotFoundError; neither changes the
\* store, and no create or update call that ends with an error changes it.
C15_Original ==
    /\ \A input \in UpdateRoleInputs :
          input.id \notin DOMAIN roles =>
              LET o == update(roles, input)
              IN o.err = "EntityNotFoundError" /\ o.detail = "Role" /\ o.roles = roles
    /\ \A call \in CreateCalls :
          (call[2].channelId # Undefined /\ call[2].channelId \notin Channels) =>
              LET o == create(roles, call[1], call[2])
              IN o.err = "EntityNotFoundError" /\ o.roles = roles
    /\ \A input \in UpdateRoleInputs :
          LET o == update(roles, input) IN o.err # "none" => o.roles = roles
    /\ \A call \in CreateCalls :
          LET o == create(roles, call[1], call[2]) IN o.err # "none" => o.roles = roles

\* C15 as amended: with a valid permission list (or, for update, none), an
\* update whose id matches no stored role fails with EntityNotFoundError for
\* the entity Role, and a create whose input.channelId matches no channel
\* fails with EntityNotFoundError for the entity Channel; neither changes the
\* store, and no create or update call that ends with an error changes it.
C15_LookupFailuresBeforeWrites ==
    /\ \A input \in UpdateRoleInputs :
          ( /\ input.id \notin DOMAIN roles
            /\ (input.permissions = None \/ ValidList(input.permissions[1])) ) =>
              LET o == update(roles, input)
              IN o.err = "EntityNotFoundError" /\ o.detail = "Role" /\ o.roles = roles
    /\ \A call \in CreateCalls :
          ( /\ call[2].channelId # Undefined
            /\ call[2].channelId \notin Channels
            /\ ValidList(call[2].permissions) ) =>
              LET o == create(roles, call[1], call[2])
              IN o.err = "EntityNotFoundError" /\ o.detail = "Channel" /\ o.roles = roles
    /\ \A input \in UpdateRoleInputs :
          LET o == update(roles, input) IN o.err # "none" => o.roles = roles
    /\ \A call \in CreateCalls :
          LET o == create(roles, call[1], call[2]) IN o.err # "none" => o.roles = roles

\* after initRoles, a create that named a channel that does not exist was
\* refused while a custom role is stored
C15_Witness ==
    /\ result.op = "create"
    /\ result.err = "EntityNotFoundError"
    /\ result.detail = "Channel"
    /\ initDone
    /\ Len(roles) = 3

\* C16: the Customer step of initRoles, run on the store as it is or as the
\* SuperAdmin step leaves it, succeeds and changes nothing when a role with
\* the Customer code is stored, whatever that role's other fields are; when
\* none is stored it appends exactly one role, with the Customer code and
\* description, the permissions Authenticated alone and the default channel
\* alone, and leaves every other role as it was.
C16_CustomerStep ==
    \A rs \in {roles, ensureSuperAdminRoleExists(roles).roles} :
        LET o == ensureCustomerRoleExists(rs)
        IN /\ o.err = "none"
           /\ IF CountCode(rs, CUSTOMER_ROLE_CODE) > 0
              THEN o.roles = rs
              ELSE /\ Len(o.roles) = Len(rs) + 1
                   /\ \A i \in DOMAIN rs : o.roles[i] = rs[i]
                   /\ o.roles[Len(o.roles)] =
                         [code |-> CUSTOMER_ROLE_CODE,
                          description |-> CUSTOMER_ROLE_DESCRIPTION,
                          permissions |-> <<"Authenticated">>,
                          channels |-> {DefaultChannel}]

\* initRoles has run on a store whose Customer role had been assigned to a
\* second channel, and the role still has both channels
C16_Witness ==
    /\ result.op = "initRoles"
    /\ result.err = "none"
    /\ \E i \in DOMAIN roles :
          roles[i].code = CUSTOMER_ROLE_CODE /\ roles[i].channels = Channels

\* C17: within one initRoles call every storage call of the SuperAdmin step
\* comes before every storage call of the Customer step, the Customer role
\* is looked up only after the SuperAdmin step has ended without error, with
\* a SuperAdmin role stored, and a call whose SuperAdmin step ended with an
\* error makes no storage call for the Customer role.
C17_SuperAdminBeforeCustomer ==
    \A p \in Procs :
        LET SuperAdminCalls == {k \in DOMAIN log[p] : log[p][k].code = SUPER_ADMIN_ROLE_CODE}
            CustomerCalls == {k \in DOMAIN log[p] : log[p][k].code = CUSTOMER_ROLE_CODE}
            LastSuperAdminCall == CHOOSE k \in SuperAdminCalls : \A j \in SuperAdminCalls : j <= k
        IN /\ \A j \in SuperAdminCalls, k \in CustomerCalls : j < k
           /\ (pc[p] \in {"ensureCustomer", "createCustomer"} \/ CustomerCalls # {}) =>
                 /\ SuperAdminCalls # {}
                 /\ log[p][LastSuperAdminCall].err = "none"
                 /\ CountCode(roles, SUPER_ADMIN_ROLE_CODE) >= 1
           /\ (pc[p] = "failed" /\ log[p][Len(log[p])].code = SUPER_ADMIN_ROLE_CODE) =>
                 CustomerCalls = {}

\* one call has failed in its SuperAdmin step, having made no call for the
\* Customer role, while another call has created the Customer role
C17_Witness ==
    \E p, q \in Procs :
        /\ pc[p] = "failed"
        /\ log[p][Len(log[p])].code = SUPER_ADMIN_ROLE_CODE
        /\ pc[q] = "done"
        /\ \E k \in DOMAIN log[q] :
              log[q][k] = [op |-> "create", code |-> CUSTOMER_ROLE_CODE, err |-> "none"]

\* C18: in every state reached after initRoles has completed, getSuperAdminRole
\* and getCustomerRole succeed; whenever either succeeds the role it returns
\* has the corresponding reserved code; and each fails, with
\* InternalServerError, exactly when no stored role has that code.
C18_SystemRolesResolvable ==
    LET superAdmin == getSuperAdminRole(roles)
        customer == getCustomerRole(roles)
    IN /\ initDone => (superAdmin.err = "none" /\ customer.err = "none")
       /\ superAdmin.err = "none" =>
             (superAdmin.id \in DOMAIN roles /\ roles[superAdmin.id].code = SUPER_ADMIN_ROLE_CODE)
       /\ customer.err = "none" =>
             (customer.id \in DOMAIN roles /\ roles[customer.id].code = CUSTOMER_ROLE_CODE)
       /\ superAdmin.err # "none" <=> CountCode(roles, SUPER_ADMIN_ROLE_CODE) = 0
       /\ customer.err # "none" <=> CountCode(roles, CUSTOMER_ROLE_CODE) = 0
       /\ superAdmin.err \in {"none", "InternalServerError"}
       /\ customer.err \in {"none", "InternalServerError"}

\* after initRoles, an update that would have given a custom role a reserved
\* code was rejected by the store
C18_Witness ==
    /\ initDone
    /\ result.op = "update"
    /\ result.err = "QueryFailedError"
    /\ Len(roles) = 3

\* the fields an update input supplies
Supplied(input) ==
    {f \in {"code", "description"} : input[f] # Undefined}
        \cup (IF input.permissions # None THEN {"permissions"} ELSE {})

\* the stored role has what the input's patch sets
Reflects(role, input) ==
    /\ input.code # Undefined => role.code = input.code
    /\ input.description # Undefined => role.description = input.description
    /\ input.permissions # None =>
          role.permissions = unique(<<"Authenticated">> \o input.permissions[1])

\* C19 as stated: when two concurrent update calls on the same role, whose
\* inputs supply disjoint fields, have both returned, the stored role has
\* what each of the two patches sets.
C19_NoLostUpdate ==
    \A p, q \in UpdateProcs :
        ( /\ p # q
          /\ pc[p] = "done"
          /\ pc[q] = "done"
          /\ inFlight[p].input.id = inFlight[q].input.id
          /\ Supplied(inFlight[p].input) \cap Supplied(inFlight[q].input) = {} ) =>
            /\ Reflects(roles[inFlight[p].input.id], inFlight[p].input)
            /\ Reflects(roles[inFlight[q].input.id], inFlight[q].input)

\* C20: when assignRoleToChannel(r, c) succeeds, c is among r's channels and
\* userHasPermissionOnChannel(u, c, p) answers true for every user u that
\* holds r and every p that r lists; the call adds no role, leaves every
\* role's code, description and permissions as they were, removes no channel
\* from any role, and turns no true answer of userHasPermissionOnChannel into
\* false.
C20_AssignOnlyAdds ==
    \A roleId \in 1..(MaxRoles + 1), channelId \in ChannelIds :
        LET o == assignRoleToChannel(roles, roleId, channelId)
        IN o.err = "none" =>
            /\ roleId \in DOMAIN roles
            /\ DOMAIN o.roles = DOMAIN roles
            /\ channelId \in o.roles[roleId].channels
            /\ \A u \in Users :
                  roleId \in UserRoles[u] =>
                      \A p \in Range(roles[roleId].permissions) :
                          LET q == userHasPermissionOnChannel(o.roles, u, channelId, p)
                          IN q.err = "none" /\ q.val
            /\ \A j \in DOMAIN roles :
                  /\ o.roles[j].code = roles[j].code
                  /\ o.roles[j].description = roles[j].description
                  /\ o.roles[j].permissions = roles[j].permissions
                  /\ roles[j].channels \subseteq o.roles[j].channels
            /\ \A u \in Users, c \in ChannelIds, k \in DOMAIN PermissionValues :
                  userHasPermissionOnChannel(roles, u, c, PermissionValues[k]).val =>
                      userHasPermissionOnChannel(o.roles, u, c, PermissionValues[k]).val

\* role 3, which lists CreateAdministrator, has been assigned to its second
\* channel
C20_Witness ==
    /\ result.op = "assignRoleToChannel"
    /\ result.err = "none"
    /\ result.id = 3
    /\ Len(roles) = 3
    /\ roles[3].channels = Channels
    /\ "CreateAdministrator" \in Range(roles[3].permissions)

====
